---- MODULE Spec2Model ----
(***************************************************************************)
(* The project financial-model engine of analytics/init_database.py:      *)
(* calculate_cash_flows, calculate_metrics and the part of main that      *)
(* drives them and writes their results to the database.                  *)
(*                                                                         *)
(* Numbers.  The program computes in Python floats.  The model computes   *)
(* in exact rationals <<n, d>> (d > 0, lowest terms), i.e. it takes the    *)
(* float operations +, -, *, / and ** as exact; round() is modelled as it *)
(* is computed (round-half-even to the given number of decimals), never   *)
(* as the identity.  Python integers (years, tenors) are integers.        *)
(***************************************************************************)
EXTENDS Integers, Sequences, FiniteSets, TLC

(***************************************************************************)
(* Bounds of the model.                                                    *)
(***************************************************************************)
MaxLife == 3
MaxTenor == 3
MaxDepreciationYears == 2
NumProjects == 2

(***************************************************************************)
(* Program constants.                                                      *)
(***************************************************************************)
HoursPerYear == 8760
MonthlyYears == 5

(***************************************************************************)
(* Exact rational arithmetic: the model of Python's float operators.  A    *)
(* number is <<n, d>> (d > 0, lowest terms) while n and d fit a machine    *)
(* integer, and <<s, 0, N, E, R>> beyond: s * N / (2^E[1] * 3^E[2] * ...   *)
(* * 13^E[6] * R), with the sign s and the naturals N and R of any size,   *)
(* written in limbs, N sharing no prime of Primes with the denominator.    *)
(* x[1] carries the sign of x in both forms.                               *)
(***************************************************************************)
\* The machine integers of the model checker end at MaxInt = 2^(MaxBits + 1)
\* - 1; a number beyond
\* is written in limbs of base Base.  Its denominator is kept factored over
\* Primes (in a run of the loop the denominators are powers of 2, 3 and 5,
\* and the loan's remaining years add 7, 11 and 13); a power of Primes[i]
\* is multiplied in or divided out Steps[i] exponents at a time, so that a
\* limb times Primes[i]^Steps[i] stays a machine integer.
MaxInt == 2147483647
MaxBits == 30
Base == 1000
Primes == <<2, 3, 5, 7, 11, 13>>
Steps == <<20, 12, 8, 7, 5, 5>>

Abs(i) == IF i < 0 THEN -i ELSE i

RECURSIVE GCD(_, _)
GCD(a, b) ==
    IF b = 0 THEN a
    ELSE IF a % b = 0 THEN b
    ELSE GCD(a % b, b % (a % b))

\* n / d for d > 0 and g their greatest common divisor
Lowest(n, d, g) == <<n \div g, d \div g>>

Rat(n, d) == Lowest(IF d < 0 THEN -n ELSE n, Abs(d), GCD(Abs(n), Abs(d)))

Num(i) == <<i, 1>>
Zero == <<0, 1>>
One == <<1, 1>>

\* The operations reach one another by name through Long, defined after
\* them.  TLC's coverage statistics keep a counter for every
\* place an operator is instantiated from, an operator used in two places
\* being instantiated twice with all that it uses in turn; Long is recursive
\* and so instantiated once.
RECURSIVE Long(_, _)

\* A natural number of any size: its limbs, the least significant first,
\* none for 0.
RECURSIVE NatOf(_)
NatOf(i) == IF i = 0 THEN <<>> ELSE <<i % Base>> \o NatOf(i \div Base)

RECURSIVE NatToInt(_, _)
NatToInt(a, i) == IF i > Len(a) THEN 0 ELSE a[i] + Base * NatToInt(a, i + 1)

\* a without its leading (most significant) zero limbs
Trim(a) ==
    IF a = <<>> THEN <<>>
    ELSE IF a[Len(a)] # 0 THEN a
    ELSE LET nz == {i \in 1..Len(a) : a[i] # 0}
         IN  IF nz = {} THEN <<>>
             ELSE SubSeq(a, 1, CHOOSE i \in nz : \A j \in nz : j <= i)

\* <<the limbs of c[lo..hi] with the carry cin added in, the carry out>>, for
\* coefficients c[i] of Base^(i-1) of either sign; the range is halved, so
\* that the evaluation nests to the logarithm of its length
RECURSIVE CarryRange(_, _, _, _)
CarryRange(c, lo, hi, cin) ==
    IF lo = hi
    THEN LET v == c[lo] + cin IN <<<<v % Base>>, v \div Base>>
    ELSE LET mid == (lo + hi) \div 2
             l == CarryRange(c, lo, mid, cin)
             h == CarryRange(c, mid + 1, hi, l[2])
         IN  <<l[1] \o h[1], h[2]>>

\* the limbs r[1] with the limbs of the carry r[2] >= 0 above them
WithCarry(r) == IF r[2] = 0 THEN Trim(r[1]) ELSE r[1] \o NatOf(r[2])

\* The limbs of the sum of c[i] * Base^(i-1), a sum >= 0.
Carry(c) ==
    IF c = <<>> THEN <<>> ELSE WithCarry(CarryRange(c, 1, Len(c), 0))

Limb(a, i) == IF i <= Len(a) THEN a[i] ELSE 0

Max(i, j) == IF i > j THEN i ELSE j

NatAdd(a, b) ==
    Long("Carry", <<[i \in 1..Max(Len(a), Len(b)) |-> Limb(a, i) + Limb(b, i)]>>)

\* a - b for a >= b
NatSub(a, b) == Long("Carry", <<[i \in 1..Len(a) |-> a[i] - Limb(b, i)]>>)

\* the coefficient of Base^(k-1) in a * b: the sum of a[i] * b[k+1-i], i in lo..hi
RECURSIVE Conv(_, _, _, _, _)
Conv(a, b, k, lo, hi) ==
    IF lo > hi THEN 0
    ELSE IF lo = hi THEN a[lo] * b[k + 1 - lo]
    ELSE Conv(a, b, k, lo, (lo + hi) \div 2)
         + Conv(a, b, k, (lo + hi) \div 2 + 1, hi)

NatMul(a, b) ==
    IF a = <<>> \/ b = <<>> THEN <<>>
    ELSE Long("Carry",
              <<[k \in 1..(Len(a) + Len(b) - 1) |->
                    Conv(a, b, k,
                         IF k > Len(b) THEN k + 1 - Len(b) ELSE 1,
                         IF k < Len(a) THEN k ELSE Len(a))]>>)

\* -1, 0, 1 as a < b, a = b, a > b
NatCmp(a, b) ==
    IF Len(a) < Len(b) THEN -1
    ELSE IF Len(a) > Len(b) THEN 1
    ELSE LET diff == {i \in 1..Len(a) : a[i] # b[i]}
         IN  IF diff = {} THEN 0
             ELSE LET top == CHOOSE i \in diff : \A j \in diff : j <= i
                  IN  IF a[top] < b[top] THEN -1 ELSE 1

\* <<the limbs of the quotient, the most significant first, the remainder>>
\* of (r * Base^(hi-lo+1) + a[lo..hi]) by a small p, for r < p; the upper
\* half comes first, as in long division
RECURSIVE DivRange(_, _, _, _, _)
DivRange(a, p, lo, hi, r) ==
    IF lo = hi
    THEN LET v == r * Base + a[lo] IN <<<<v \div p>>, v % p>>
    ELSE LET mid == (lo + hi) \div 2
             h == DivRange(a, p, mid + 1, hi, r)
             l == DivRange(a, p, lo, mid, h[2])
         IN  <<h[1] \o l[1], l[2]>>

Reverse(s) == [i \in 1..Len(s) |-> s[Len(s) + 1 - i]]

NatModSmall(a, p) == IF a = <<>> THEN 0 ELSE DivRange(a, p, 1, Len(a), 0)[2]

NatDivSmall(a, p) ==
    IF a = <<>> THEN <<>> ELSE Trim(Reverse(DivRange(a, p, 1, Len(a), 0)[1]))

FitsInt(a) == Long("NatCmp", <<a, NatOf(MaxInt)>>) <= 0

\* The largest q in lo..hi - 1 with (base + q * unit) * d <= n.
RECURSIVE Search(_, _, _, _, _, _)
Search(n, d, base, unit, lo, hi) ==
    IF hi - lo <= 1 THEN lo
    ELSE LET mid == (lo + hi) \div 2
         IN  IF Long("NatCmp", <<Long("NatMul", <<NatOf(base + mid * unit), d>>),
                                n>>) <= 0
             THEN Search(n, d, base, unit, mid, hi)
             ELSE Search(n, d, base, unit, lo, mid)

\* base with the next limb of floor(n / d), the one of weight unit, added
Digit(n, d, base, unit) == base + Search(n, d, base, unit, 0, Base) * unit

\* floor(n / d) for naturals n and d > 0 whose quotient is below Base^3:
\* its three limbs, the most significant first
NatFloor(n, d) ==
    Digit(n, d, Digit(n, d, Digit(n, d, 0, Base * Base), Base), 1)

NoPrimes == [i \in 1..Len(Primes) |-> 0]

Min(i, j) == IF i < j THEN i ELSE j

\* Primes[i]^Steps[i]: the largest factor met in one step
Step(i) == Primes[i]^Steps[i]

\* the small factors whose product is Primes[i]^k
Factors(i, k) ==
    [j \in 1..(k \div Steps[i]) |-> Step(i)]
    \o (IF k % Steps[i] = 0 THEN <<>> ELSE <<Primes[i]^(k % Steps[i])>>)

\* the small factors whose product is the product of Primes[i]^e[i], i >= k
RECURSIVE Multipliers(_, _)
Multipliers(e, k) ==
    IF k > Len(Primes) THEN <<>>
    ELSE Factors(k, e[k]) \o Multipliers(e, k + 1)

\* the product of ms[lo..hi], by halves
RECURSIVE NatProd(_, _, _)
NatProd(ms, lo, hi) ==
    IF lo > hi THEN <<1>>
    ELSE IF lo = hi THEN NatOf(ms[lo])
    ELSE Long("NatMul", <<NatProd(ms, lo, (lo + hi) \div 2),
                          NatProd(ms, (lo + hi) \div 2 + 1, hi)>>)

\* the product of the small factors ms
NatProduct(ms) == NatProd(ms, 1, Len(ms))

\* n times the product of Primes[i]^e[i]
ScaleUp(n, e) ==
    IF e = NoPrimes THEN n
    ELSE Long("NatMul", <<n, Long("NatProduct", <<Multipliers(e, 1)>>)>>)

\* n over ds[k], ds[k+1], ... in turn, each dividing what is left
RECURSIVE DivideBy(_, _, _)
DivideBy(n, ds, k) ==
    IF k > Len(ds) \/ n = <<>> THEN n
    ELSE DivideBy(Long("NatDivSmall", <<n, ds[k]>>), ds, k + 1)

\* the largest k with Primes[i]^k dividing n, for n # 0
RECURSIVE Multiplicity(_, _)
Multiplicity(n, i) ==
    LET m == Long("NatModSmall", <<n, Step(i)>>)
    IN  IF m = 0
        THEN Steps[i] + Multiplicity(Long("NatDivSmall", <<n, Step(i)>>), i)
        ELSE CHOOSE k \in 0..(Steps[i] - 1) :
                 m % Primes[i]^k = 0 /\ m % Primes[i]^(k + 1) # 0

\* <<m, f>> with n = m * product of Primes[i]^f[i], m having no factor in
\* Primes, for n # 0
FactorOut(n) ==
    LET f == [i \in 1..Len(Primes) |-> Long("Multiplicity", <<n, i>>)]
    IN  IF f = NoPrimes THEN <<n, NoPrimes>>
        ELSE <<DivideBy(n, Multipliers(f, 1), 1), f>>

\* <<m, f>> with m / product of Primes[i]^f[i] the fraction n / product of
\* Primes[i]^e[i] in lowest terms, for n # 0
Cancel(n, e) ==
    LET c == [i \in 1..Len(Primes) |->
                 IF e[i] = 0 THEN 0
                 ELSE Min(e[i], Long("Multiplicity", <<n, i>>))]
    IN  IF c = NoPrimes THEN <<n, e>>
        ELSE <<DivideBy(n, Multipliers(c, 1), 1),
               [i \in 1..Len(Primes) |-> e[i] - c[i]]>>

IsSmall(x) == x[2] # 0

BothSmall(x, y) == 0 \notin {x[2], y[2]}

ToBig(x) ==
    IF IsSmall(x)
    THEN LET f == Long("FactorOut", <<NatOf(x[2])>>)
         IN  <<IF x[1] < 0 THEN -1 ELSE 1, 0, NatOf(Abs(x[1])), f[2], f[1]>>
    ELSE x

\* the denominator of a number in the long form
Denominator(x) == Long("ScaleUp", <<x[5], x[4]>>)

\* s * n / (product of Primes[i]^e[i] * r): in the short form where it fits
BigRat(s, n, e, r) ==
    IF n = <<>> THEN Zero
    ELSE LET c == Long("Cancel", <<n, e>>)
             d == Long("ScaleUp", <<r, c[2]>>)
         IN  IF FitsInt(c[1]) /\ FitsInt(d)
             THEN Rat(s * NatToInt(c[1], 1), NatToInt(d, 1))
             ELSE <<s, 0, c[1], c[2], r>>

BigAdd(x, y) ==
    IF x[3] = <<>> THEN Long("BigRat", <<y[1], y[3], y[4], y[5]>>)
    ELSE IF y[3] = <<>> THEN Long("BigRat", <<x[1], x[3], x[4], x[5]>>)
    ELSE LET e == [i \in 1..Len(Primes) |-> Max(x[4][i], y[4][i])]
             same == x[5] = y[5]
             r == IF same THEN x[5] ELSE Long("NatMul", <<x[5], y[5]>>)
             a == Long("ScaleUp",
                       <<IF same THEN x[3] ELSE Long("NatMul", <<x[3], y[5]>>),
                         [i \in 1..Len(Primes) |-> e[i] - x[4][i]]>>)
             b == Long("ScaleUp",
                       <<IF same THEN y[3] ELSE Long("NatMul", <<y[3], x[5]>>),
                         [i \in 1..Len(Primes) |-> e[i] - y[4][i]]>>)
             c == Long("NatCmp", <<a, b>>)
         IN  IF x[1] = y[1]
             THEN Long("BigRat", <<x[1], Long("NatAdd", <<a, b>>), e, r>>)
             ELSE IF c = 0 THEN Zero
             ELSE IF c > 0
             THEN Long("BigRat", <<x[1], Long("NatSub", <<a, b>>), e, r>>)
             ELSE Long("BigRat", <<y[1], Long("NatSub", <<b, a>>), e, r>>)

BigMul(x, y) ==
    IF x[3] = <<>> \/ y[3] = <<>> THEN Zero
    ELSE Long("BigRat", <<x[1] * y[1], Long("NatMul", <<x[3], y[3]>>),
                          [i \in 1..Len(Primes) |-> x[4][i] + y[4][i]],
                          Long("NatMul", <<x[5], y[5]>>)>>)

\* 1 / y for y # 0 in the long form
BigInverse(y) ==
    LET f == Long("FactorOut", <<y[3]>>)
    IN  Long("BigRat", <<y[1], Denominator(y), f[2], f[1]>>)

\* a^n for a natural a and n >= 1, by halves
RECURSIVE NatPow(_, _)
NatPow(a, n) ==
    IF n = 1 THEN a
    ELSE Long("NatMul", <<NatPow(a, n \div 2), NatPow(a, n - n \div 2)>>)

\* x ** n for n >= 1 and x in the long form: the powers of the numerator and
\* of the denominator, which share no factor as those of x share none
BigPow(x, n) ==
    Long("BigRat", <<IF n % 2 = 0 THEN 1 ELSE x[1], NatPow(x[3], n),
                     [i \in 1..Len(Primes) |-> n * x[4][i]], NatPow(x[5], n)>>)

\* round(x, 0) for x in the long form: to the nearest integer, a tie to the
\* even one
BigRound(x) ==
    LET d == Denominator(x)
    IN  IF d = <<1>> THEN x
        ELSE LET q == Long("NatFloor", <<x[3], d>>)
                 r == Long("NatSub", <<x[3], Long("NatMul", <<NatOf(q), d>>)>>)
                 c == Long("NatCmp", <<Long("NatAdd", <<r, r>>), d>>)
             IN  IF (q % 2 = 0 /\ c > 0) \/ (q % 2 = 1 /\ c >= 0)
                 THEN Num(x[1] * (q + 1))
                 ELSE Num(x[1] * q)

\* a * b fits a machine integer, with room for a sum of two such products
Fits(a, b) == a = 0 \/ Abs(b) <= (MaxInt \div 2) \div Abs(a)

Neg(x) ==
    IF IsSmall(x) THEN <<-x[1], x[2]>> ELSE <<-x[1], 0, x[3], x[4], x[5]>>

\* x + y in the short form, <<>> without room for it
ShortAdd(x, y) ==
    LET g == GCD(x[2], y[2])
        p == y[2] \div g
        q == x[2] \div g
    IN  IF Fits(x[1], p) /\ Fits(y[1], q) /\ Fits(x[2], p)
        THEN Rat(x[1] * p + y[1] * q, x[2] * p)
        ELSE <<>>

\* x * y in the short form, <<>> without room for it
ShortMul(x, y) ==
    LET g1 == GCD(Abs(x[1]), y[2])
        g2 == GCD(Abs(y[1]), x[2])
        a == x[1] \div g1
        b == y[1] \div g2
        c == x[2] \div g2
        d == y[2] \div g1
    IN  IF Fits(a, b) /\ Fits(c, d) THEN Rat(a * b, c * d) ELSE <<>>

\* s where the short form had room for the result, and else b, the result
\* of the long form
Either(s, b) == IF s # <<>> THEN s ELSE b

Sum(x, y) ==
    Either(IF BothSmall(x, y) THEN ShortAdd(x, y) ELSE <<>>,
           BigAdd(Long("ToBig", <<x>>), Long("ToBig", <<y>>)))

Product(x, y) ==
    Either(IF BothSmall(x, y) THEN ShortMul(x, y) ELSE <<>>,
           BigMul(Long("ToBig", <<x>>), Long("ToBig", <<y>>)))

\* 1 / y for y # 0
Inverse(y) == IF IsSmall(y) THEN Rat(y[2], y[1]) ELSE BigInverse(y)

\* m^n fits a machine integer: m is below 2^k and 2^(k * n) fits
FitsPow(m, n) ==
    \E k \in 0..(MaxBits \div n) : m < 2^k

Power(x, n) ==
    IF n = 0 THEN One
    ELSE IF n = 1 THEN x
    ELSE IF IsSmall(x) /\ FitsPow(Max(Abs(x[1]), x[2]), n)
    THEN <<x[1]^n, x[2]^n>>
    ELSE BigPow(Long("ToBig", <<x>>), n)

\* to the nearest integer, a tie to the even one
Nearest(x) ==
    IF IsSmall(x) /\ x[2] <= MaxInt \div 2
    THEN LET q == x[1] \div x[2]
             r == x[1] - q * x[2]
         IN  IF 2 * r < x[2] THEN Num(q)
             ELSE IF 2 * r > x[2] THEN Num(q + 1)
             ELSE IF q % 2 = 0 THEN Num(q) ELSE Num(q + 1)
    ELSE BigRound(Long("ToBig", <<x>>))

\* The operators of Python, each the operation of that name
Add(x, y) == Long("Sum", <<x, y>>)
Sub(x, y) == Long("Sum", <<x, Neg(y)>>)
Mul(x, y) == Long("Product", <<x, y>>)

\* x / y for y # 0; the callers model Python's ZeroDivisionError for y = 0.
Div(x, y) == Long("Quotient", <<x, y>>)

\* x ** n for an integer n >= 0
Pow(x, n) == Long("Power", <<x, n>>)

Lt(x, y) == Sub(x, y)[1] < 0
Leq(x, y) == Sub(x, y)[1] <= 0
IsZero(x) == x[1] = 0

\* max(0, x) of line 286
Max0(x) == IF x[1] < 0 THEN Zero ELSE x

\* round(x, 0)
Round(x) == Long("Nearest", <<x>>)

\* round(x, k) for k decimals: 10^k * x rounded as above, over 10^k.
RoundTo(x, k) == Long("Decimals", <<x, k>>)

Quotient(x, y) == Mul(x, Inverse(y))

Decimals(x, k) == Div(Round(Mul(x, Pow(Num(10), k))), Pow(Num(10), k))

\* The operation named f, on the arguments a, which are evaluated before the
\* operation is entered
Long(f, a) ==
    IF a = <<>> THEN a
    ELSE CASE f = "Sum" -> Sum(a[1], a[2])
           [] f = "Product" -> Product(a[1], a[2])
           [] f = "Quotient" -> Quotient(a[1], a[2])
           [] f = "Power" -> Power(a[1], a[2])
           [] f = "Nearest" -> Nearest(a[1])
           [] f = "Decimals" -> Decimals(a[1], a[2])
           [] f = "Carry" -> Carry(a[1])
           [] f = "NatAdd" -> NatAdd(a[1], a[2])
           [] f = "NatSub" -> NatSub(a[1], a[2])
           [] f = "NatMul" -> NatMul(a[1], a[2])
           [] f = "NatCmp" -> NatCmp(a[1], a[2])
           [] f = "NatModSmall" -> NatModSmall(a[1], a[2])
           [] f = "NatDivSmall" -> NatDivSmall(a[1], a[2])
           [] f = "NatFloor" -> NatFloor(a[1], a[2])
           [] f = "NatProduct" -> NatProduct(a[1])
           [] f = "ScaleUp" -> ScaleUp(a[1], a[2])
           [] f = "Multiplicity" -> Multiplicity(a[1], a[2])
           [] f = "FactorOut" -> FactorOut(a[1])
           [] f = "Cancel" -> Cancel(a[1], a[2])
           [] f = "ToBig" -> ToBig(a[1])
           [] f = "BigRat" -> BigRat(a[1], a[2], a[3], a[4])

\* sum(s), by halves
RECURSIVE SumRange(_, _, _)
SumRange(s, lo, hi) ==
    IF lo = hi THEN s[lo]
    ELSE Add(SumRange(s, lo, (lo + hi) \div 2),
             SumRange(s, (lo + hi) \div 2 + 1, hi))

SumSeq(s) == IF s = <<>> THEN Zero ELSE SumRange(s, 1, Len(s))

\* min(s) for a list that is not empty, by halves
RECURSIVE MinRange(_, _, _)
MinRange(s, lo, hi) ==
    IF lo = hi THEN s[lo]
    ELSE LET l == MinRange(s, lo, (lo + hi) \div 2)
             h == MinRange(s, (lo + hi) \div 2 + 1, hi)
         IN  IF Lt(h, l) THEN h ELSE l

MinSeq(s) == MinRange(s, 1, Len(s))

(***************************************************************************)
(* The inputs: what the callers of the engine may pass.  The generator of *)
(* the repository draws them at random from ranges; the engine itself     *)
(* checks nothing, so the model also passes the degenerate values (zero   *)
(* capacity, zero capacity factor, zero tenor, zero depreciation years, a *)
(* negative rate).                                                         *)
(***************************************************************************)
Capacities == {Num(0), Rat(1, 1000)}
CapexPerMw == {Num(12000), Num(40000)}
OpexPerMwYear == {Num(1000)}
CapacityFactors == {Zero, Rat(1, 2)}
DegradationRates == {Rat(1, 10)}
Prices == {Num(2)}
PriceEscalationRates == {Rat(1, 2)}
DiscountRates == {Rat(1, 10)}
DebtRatios == {Zero, Rat(1, 2), One}
InterestRates == {Rat(-1, 10), Zero, Rat(1, 10)}
TaxRates == {Rat(1, 4)}
Lives == 0..MaxLife
Tenors == 0..MaxTenor
DepreciationYears == 0..MaxDepreciationYears

AssumptionSource ==
    [capex_per_mw : CapexPerMw,
     opex_per_mw_year : OpexPerMwYear,
     capacity_factor : CapacityFactors,
     degradation_rate : DegradationRates,
     electricity_price_mwh : Prices,
     price_escalation_rate : PriceEscalationRates,
     discount_rate : DiscountRates,
     debt_ratio : DebtRatios,
     interest_rate : InterestRates,
     loan_tenor_years : Tenors,
     tax_rate : TaxRates,
     depreciation_years : DepreciationYears]

\* random.uniform(-0.03, 0.05) of line 321: the two ends of the range.
IrrDraws == {Rat(-3, 100), Rat(5, 100)}

NoResult == <<"none">>
NoError == <<"none", 0>>

VARIABLES
    pc,                 \* the control point of the caller
    error,              \* the exception that ended the run, or "none"
    calls,              \* how many times the engine has been called
    project_id,         \* the arguments of the engine ...
    capacity,
    assumptions,
    project_life,
    capex,              \* ... the locals of calculate_cash_flows ...
    annual_generation_base,
    cumulative,
    debt_balance,
    annual_depreciation,
    year,
    cash_flows,
    trace,              \* the loop body's locals, unrounded, year by year
    metrics,            \* ... the record calculate_metrics returned
    first_cash_flows,   \* what the first call on the first arguments returned
    first_metrics,
    todo,               \* the arguments of the calls the caller has yet to make
    db,                 \* the rows the connection has inserted, per table
    committed           \* the rows of db that a commit has made durable

args == <<project_id, capacity, assumptions, project_life>>
locals == <<capex, annual_generation_base, cumulative, debt_balance,
            annual_depreciation, year, cash_flows, trace>>
firsts == <<first_cash_flows, first_metrics, todo>>
store == <<db, committed>>
vars == <<pc, error, calls, args, locals, metrics, firsts, store>>

(***************************************************************************)
(* calculate_cash_flows (lines 252-307).                                   *)
(***************************************************************************)
OpexEscalation == Rat(51, 50)

\* line 254
Capex(cap, a) == Mul(a.capex_per_mw, cap)

\* line 255
AnnualGenerationBase(cap, a) ==
    Mul(Mul(cap, a.capacity_factor), Num(HoursPerYear))

\* line 258 without the equity share: the whole capex is laid out
EntryCumulative_WholeCapex(cpx, a) == Neg(cpx)

\* line 258: the initial equity investment, negative
EntryCumulative(cpx, a) == Mul(Neg(cpx), Sub(One, a.debt_ratio))

\* line 259 with debt_balance a module-level variable that only the first
\* call initialises
EntryDebtBalance_Global(cpx, a) ==
    IF calls = 0 THEN Mul(cpx, a.debt_ratio) ELSE debt_balance

\* line 259
EntryDebtBalance(cpx, a) == Mul(cpx, a.debt_ratio)

\* line 260, for depreciation_years # 0
AnnualDepreciation(cpx, a) == Div(cpx, Num(a.depreciation_years))

\* lines 264-265
AnnualGeneration(base, a, y) ==
    Mul(base, Pow(Sub(One, a.degradation_rate), y - 1))

\* line 268
Price(a, y) ==
    Mul(a.electricity_price_mwh, Pow(Add(One, a.price_escalation_rate), y - 1))

\* line 271
Opex(cap, a, y) ==
    Mul(Mul(a.opex_per_mw_year, cap), Pow(OpexEscalation, y - 1))

\* line 274 without the horizon: depreciation in every year
Depreciation_EveryYear(dep, a, y) == dep

\* line 274
Depreciation(dep, a, y) == IF y <= a.depreciation_years THEN dep ELSE Zero

\* line 277
HasDebtService(balance, a, y) == y <= a.loan_tenor_years /\ balance[1] > 0

\* line 278 without the test of line 277: interest on whatever balance is
\* left, in every year
Interest_EveryYear(balance, a, y) == Mul(balance, a.interest_rate)

\* lines 278, 282
Interest(balance, a, y) ==
    IF HasDebtService(balance, a, y) THEN Mul(balance, a.interest_rate) ELSE Zero

\* line 279 with the whole tenor, not the years left, as the divisor
Principal_OverTenor(balance, a, y) ==
    IF HasDebtService(balance, a, y)
    THEN Div(balance, Num(a.loan_tenor_years))
    ELSE Zero

\* lines 279, 283
Principal(balance, a, y) ==
    IF HasDebtService(balance, a, y)
    THEN Div(balance, Num(a.loan_tenor_years - y + 1))
    ELSE Zero

\* line 280 left out: the balance is never written down
NextDebtBalance_Unpaid(balance, a, y) == balance

\* line 280
NextDebtBalance(balance, a, y) == Sub(balance, Principal(balance, a, y))

\* line 286 without max(0, ...): a loss year earns a tax credit
Tax_NoFloor(ebt, a) == Mul(ebt, a.tax_rate)

\* line 286
Tax(ebt, a) == Max0(Mul(ebt, a.tax_rate))

\* line 289 without the principal: the repayment is not taken off
Fcf_NoPrincipal(ebitda, interest, principal, tax) ==
    Sub(Sub(ebitda, interest), tax)

\* line 289 without the tax: the cash flow before tax
Fcf_BeforeTax(ebitda, interest, principal, tax) ==
    Sub(Sub(ebitda, interest), principal)

\* line 289
Fcf(ebitda, interest, principal, tax) ==
    Sub(Sub(Sub(ebitda, interest), principal), tax)

\* line 290 with = for +=
NextCumulative_Overwrite(cum, fcf) == fcf

\* line 290
NextCumulative(cum, fcf) == Add(cum, fcf)

\* line 262 with range(1, project_life): the last year is left out
InRange_Exclusive(y, life) == y < life

\* line 262: range(1, project_life + 1) still has the year y to yield
InRange(y, life) == y <= life

\* lines 264-283: the locals of year y that are computed from the arguments
\* and the balance alone
YearLocals(cap, a, base, dep, balance, y) ==
    [year |-> y,
     annual_generation |-> AnnualGeneration(base, a, y),
     price |-> Price(a, y),
     opex |-> Opex(cap, a, y),
     depreciation |-> Depreciation(dep, a, y),
     interest |-> Interest(balance, a, y),
     principal |-> Principal(balance, a, y),
     opening_balance |-> balance,
     debt_balance |-> NextDebtBalance(balance, a, y)]

\* The locals b with those of one more statement.
\* line 269
WithRevenue(b) == b @@ [revenue |-> Mul(b.annual_generation, b.price)]

\* line 272
WithEbitda(b) == b @@ [ebitda |-> Sub(b.revenue, b.opex)]

\* line 285
WithEbt(b) == b @@ [ebt |-> Sub(Sub(b.ebitda, b.depreciation), b.interest)]

\* line 286
WithTax(b, a) == b @@ [tax |-> Tax(b.ebt, a)]

\* lines 287-289
WithFcf(b) ==
    b @@ [net_income |-> Sub(b.ebt, b.tax),
          fcf |-> Fcf(b.ebitda, b.interest, b.principal, b.tax)]

\* line 290
WithCumulative(b, cum) == b @@ [cumulative |-> NextCumulative(cum, b.fcf)]

\* lines 263-290: the locals of one pass of the loop body, for year y, each
\* statement adding its own to those of the statements before it
LoopBody(cap, a, base, dep, balance, cum, y) ==
    WithCumulative(
        WithFcf(WithTax(WithEbt(WithEbitda(WithRevenue(
            YearLocals(cap, a, base, dep, balance, y)))), a)),
        cum)

\* lines 292-305: the record appended for the year
CashFlowRecord(pid, b) ==
    [project_id |-> pid,
     year |-> b.year,
     revenue |-> Round(b.revenue),
     opex |-> Round(b.opex),
     ebitda |-> Round(b.ebitda),
     depreciation |-> Round(b.depreciation),
     interest_expense |-> Round(b.interest),
     principal_repayment |-> Round(b.principal),
     tax |-> Round(b.tax),
     net_income |-> Round(b.net_income),
     free_cash_flow |-> Round(b.fcf),
     cumulative_cash_flow |-> Round(b.cumulative)]

\* An exception leaves the function and, uncaught, ends the run; error
\* keeps its type and the line that raised it.
Raise(e, line) ==
    /\ pc' = "raised"
    /\ error' = <<e, line>>

\* lines 254-260: the call, up to the loop.  capex / 0 raises at line 260,
\* after lines 254-259 have run.
CashFlowsEntry ==
    /\ pc = "call_cash_flows"
    /\ calls' = calls + 1
    /\ capex' = Capex(capacity, assumptions)
    /\ annual_generation_base' = AnnualGenerationBase(capacity, assumptions)
    /\ cash_flows' = <<>>
    /\ trace' = <<>>
    /\ cumulative' = EntryCumulative(capex', assumptions)
    /\ debt_balance' = EntryDebtBalance(capex', assumptions)
    /\ IF assumptions.depreciation_years = 0
       THEN /\ Raise("ZeroDivisionError", 260)
            /\ UNCHANGED <<annual_depreciation, year>>
       ELSE /\ annual_depreciation' = AnnualDepreciation(capex', assumptions)
            /\ year' = 1
            /\ pc' = "cash_flows_loop"
            /\ UNCHANGED error
    /\ UNCHANGED <<args, metrics, firsts, store>>

\* lines 280, 290-305: what one pass of the loop leaves behind, given its
\* locals b
KeepYear(b) ==
    /\ debt_balance' = b.debt_balance
    /\ cumulative' = b.cumulative
    /\ trace' = Append(trace, b)
    /\ cash_flows' = Append(cash_flows, CashFlowRecord(project_id, b))

\* lines 262-305: one pass of the loop (year is the value range() yields next)
CashFlowsYear ==
    /\ pc = "cash_flows_loop"
    /\ InRange(year, project_life)
    /\ KeepYear(LoopBody(capacity, assumptions, annual_generation_base,
                         annual_depreciation, debt_balance, cumulative, year))
    /\ year' = year + 1
    /\ UNCHANGED <<pc, error, calls, args, capex, annual_generation_base,
                   annual_depreciation, metrics, firsts, store>>

\* line 307: the loop is over, the list is returned to the caller, at `to`
CashFlowsReturn(to) ==
    /\ pc = "cash_flows_loop"
    /\ ~InRange(year, project_life)
    /\ pc' = to
    /\ UNCHANGED <<error, calls, args, locals, metrics, firsts, store>>

(***************************************************************************)
(* calculate_metrics (lines 310-363).                                      *)
(***************************************************************************)
IrrBase == Rat(8, 100)
EquityIrrFactor == Rat(6, 5)
CarbonPerMwh == Rat(2, 5)
Thousand == Num(1000)

\* line 313
Equity(cpx, a) == Mul(cpx, Sub(One, a.debt_ratio))

\* line 318: the discount factor of a year; zero for a discount rate of -1
DiscountFactor(a, y) == Pow(Add(One, a.discount_rate), y)

\* lines 316-318 without the discounting of line 318
Npv_Undiscounted(cpx, a, cfs) ==
    Add(Neg(Equity(cpx, a)),
        SumSeq([i \in 1..Len(cfs) |-> cfs[i].free_cash_flow]))

\* lines 316-318
Npv(cpx, a, cfs) ==
    Add(Neg(Equity(cpx, a)),
        SumSeq([i \in 1..Len(cfs) |->
                   Div(cfs[i].free_cash_flow, DiscountFactor(a, cfs[i].year))]))

\* line 326
BreaksEven(cf) == cf.cumulative_cash_flow[1] >= 0

\* lines 324-328 without the break of line 328: the last such year wins
Payback_NoBreak(cfs, life) ==
    IF \E i \in 1..Len(cfs) : BreaksEven(cfs[i])
    THEN LET last == CHOOSE i \in 1..Len(cfs) :
                         /\ BreaksEven(cfs[i])
                         /\ \A j \in (i + 1)..Len(cfs) : ~BreaksEven(cfs[j])
         IN  cfs[last].year
    ELSE life

\* lines 324-328
Payback(cfs, life) ==
    IF \E i \in 1..Len(cfs) : BreaksEven(cfs[i])
    THEN LET first == CHOOSE i \in 1..Len(cfs) :
                          /\ BreaksEven(cfs[i])
                          /\ \A j \in 1..(i - 1) : ~BreaksEven(cfs[j])
         IN  cfs[first].year
    ELSE life

\* lines 331-334
TotalGeneration(cap, a, life) ==
    SumSeq([y \in 1..life |->
               Mul(Mul(Mul(cap, a.capacity_factor), Num(HoursPerYear)),
                   Pow(Sub(One, a.degradation_rate), y - 1))])

\* line 335 without capex: the operating costs only
TotalCosts_OpexOnly(cpx, cfs) == SumSeq([i \in 1..Len(cfs) |-> cfs[i].opex])

\* line 335
TotalCosts(cpx, cfs) ==
    Add(cpx, SumSeq([i \in 1..Len(cfs) |-> cfs[i].opex]))

\* line 341 without the principal: the interest only
DebtService_InterestOnly(cf) == cf.interest_expense

\* line 341
DebtService(cf) == Add(cf.interest_expense, cf.principal_repayment)

\* line 342: the ratio of each of the years served
Coverage(served) ==
    [i \in 1..Len(served) |-> Div(served[i].ebitda, DebtService(served[i]))]

\* lines 339-343
DscrValues(cfs) ==
    Coverage(SelectSeq(cfs, LAMBDA cf : DebtService(cf)[1] > 0))

\* line 345
DscrMin(vals) == IF vals # <<>> THEN MinSeq(vals) ELSE Zero

\* line 346 without the division: the sum of the ratios
DscrAvg_Sum(vals) == IF vals # <<>> THEN SumSeq(vals) ELSE Zero

\* line 346
DscrAvg(vals) ==
    IF vals # <<>> THEN Div(SumSeq(vals), Num(Len(vals))) ELSE Zero

\* line 321, with `draw` the value random.uniform returned
Irr(draw) == Add(IrrBase, draw)

\* line 318 divides by the discount factor
NpvRaises(a, cfs) ==
    \E i \in 1..Len(cfs) : IsZero(DiscountFactor(a, cfs[i].year))

\* line 336 divides by the total generation
LcoeRaises(cap, a, life) == IsZero(TotalGeneration(cap, a, life))

\* lines 316-349: the locals that follow capex (line 312), the total
\* generation (lines 331-334) and the DSCR values (lines 339-343)
LocalsFrom(a, cfs, life, draw, cpx, total_generation_, dscr_values_) ==
    [capex |-> cpx,
     npv |-> Npv(cpx, a, cfs),
     irr |-> Irr(draw),
     payback |-> Payback(cfs, life),
     total_generation |-> total_generation_,
     lcoe |-> Div(TotalCosts(cpx, cfs), total_generation_),
     dscr_min |-> DscrMin(dscr_values_),
     dscr_avg |-> DscrAvg(dscr_values_),
     carbon_offset |-> Div(Mul(total_generation_, CarbonPerMwh), Thousand)]

\* lines 312-349: the locals of the function, in the order of its
\* statements, for arguments on which no line raises
MetricsLocals(cap, a, cfs, life, draw) ==
    LocalsFrom(a, cfs, life, draw, Capex(cap, a),
               TotalGeneration(cap, a, life), DscrValues(cfs))

\* lines 351-363: the record returned, given the locals m
MetricsRecord(pid, m) ==
    [project_id |-> pid,
     total_capex |-> Round(m.capex),
     npv |-> Round(m.npv),
     irr |-> RoundTo(m.irr, 4),
     payback_period_years |-> m.payback,
     lcoe |-> RoundTo(m.lcoe, 2),
     dscr_min |-> RoundTo(m.dscr_min, 2),
     dscr_avg |-> RoundTo(m.dscr_avg, 2),
     equity_irr |-> RoundTo(Mul(m.irr, EquityIrrFactor), 4),
     total_generation_gwh |-> RoundTo(Div(m.total_generation, Thousand), 1),
     carbon_offset_tonnes |-> Round(Mul(m.carbon_offset, Thousand))]

\* lines 312-363
CalculateMetrics(pid, cap, a, cfs, life, draw) ==
    MetricsRecord(pid, MetricsLocals(cap, a, cfs, life, draw))

\* the call of calculate_metrics, returning to the caller at `to`
Metrics(to) ==
    /\ pc = "call_metrics"
    /\ \E draw \in IrrDraws :
          IF NpvRaises(assumptions, cash_flows)
          THEN /\ Raise("ZeroDivisionError", 318)
               /\ UNCHANGED metrics
          ELSE IF LcoeRaises(capacity, assumptions, project_life)
          THEN /\ Raise("ZeroDivisionError", 336)
               /\ UNCHANGED metrics
          ELSE /\ metrics' = CalculateMetrics(project_id, capacity, assumptions,
                                              cash_flows, project_life, draw)
               /\ pc' = to
               /\ UNCHANGED error
    /\ UNCHANGED <<calls, args, locals, firsts, store>>

(***************************************************************************)
(* The engine on its own: a caller that passes any arguments (project 1), *)
(* calls calculate_cash_flows and calculate_metrics, and then calls both  *)
(* again on the same arguments, directly or after a call for another      *)
(* project (project 2).                                                    *)
(***************************************************************************)
Tables == {"projects", "financial_assumptions", "annual_cash_flows",
           "key_metrics", "monthly_generation"}

EmptyDb == [t \in Tables |-> <<>>]

InitLocals ==
    /\ capex = Zero
    /\ annual_generation_base = Zero
    /\ cumulative = Zero
    /\ debt_balance = Zero
    /\ annual_depreciation = Zero
    /\ year = 0
    /\ cash_flows = <<>>
    /\ trace = <<>>

\* The arguments of a call for another project: a loan that outlives the
\* project, so that the call ends with a debt balance left.
OtherProject ==
    [project_id |-> 2,
     capacity |-> Rat(1, 1000),
     assumptions |->
        [capex_per_mw |-> Num(40000),
         opex_per_mw_year |-> Num(1000),
         capacity_factor |-> Rat(1, 2),
         degradation_rate |-> Rat(1, 10),
         electricity_price_mwh |-> Num(2),
         price_escalation_rate |-> Rat(1, 2),
         discount_rate |-> Rat(1, 10),
         debt_ratio |-> Rat(1, 2),
         interest_rate |-> Rat(1, 10),
         loan_tenor_years |-> 2,
         tax_rate |-> Rat(1, 4),
         depreciation_years |-> 1],
     project_life |-> 1]

Init ==
    /\ pc = "call_cash_flows"
    /\ error = NoError
    /\ calls = 0
    /\ project_id = 1
    /\ capacity \in Capacities
    /\ assumptions \in AssumptionSource
    /\ project_life \in Lives
    /\ todo = <<>>
    /\ InitLocals
    /\ metrics = NoResult
    /\ first_cash_flows = NoResult
    /\ first_metrics = NoResult
    /\ db = EmptyDb
    /\ committed = EmptyDb

\* The caller keeps what the first call returned ...
KeepFirst ==
    /\ pc = "metrics_returned"
    /\ calls = 1
    /\ first_cash_flows' = cash_flows
    /\ first_metrics' = metrics

\* ... and calls again on the same arguments, ...
CallAgain ==
    /\ KeepFirst
    /\ pc' = "call_cash_flows"
    /\ UNCHANGED <<error, calls, args, locals, metrics, todo, store>>

\* ... or calls for the other project first, ...
CallOther ==
    /\ KeepFirst
    /\ todo' = <<[project_id |-> project_id, capacity |-> capacity,
                  assumptions |-> assumptions, project_life |-> project_life]>>
    /\ project_id' = OtherProject.project_id
    /\ capacity' = OtherProject.capacity
    /\ assumptions' = OtherProject.assumptions
    /\ project_life' = OtherProject.project_life
    /\ pc' = "call_cash_flows"
    /\ UNCHANGED <<error, calls, locals, metrics, store>>

\* ... and then on the first arguments again.
CallBack ==
    /\ pc = "metrics_returned"
    /\ todo # <<>>
    /\ project_id' = Head(todo).project_id
    /\ capacity' = Head(todo).capacity
    /\ assumptions' = Head(todo).assumptions
    /\ project_life' = Head(todo).project_life
    /\ todo' = Tail(todo)
    /\ pc' = "call_cash_flows"
    /\ UNCHANGED <<error, calls, locals, metrics, first_cash_flows,
                   first_metrics, store>>

Next ==
    \/ CashFlowsEntry
    \/ CashFlowsYear
    \/ CashFlowsReturn("call_metrics")
    \/ Metrics("metrics_returned")
    \/ CallAgain
    \/ CallOther
    \/ CallBack

Spec == Init /\ [][Next]_vars

(***************************************************************************)
(* main (lines 473-531): for each project, insert its row, generate and   *)
(* insert its assumptions, its cash flows, its metrics and its monthly    *)
(* generation.  db is what the connection has inserted, committed what a  *)
(* conn.commit() has made durable; an uncaught exception ends the run and *)
(* leaves the committed rows in the database file.  The tail of main      *)
(* (lines 519-527) writes only the market_data and technology_benchmarks  *)
(* tables, which hold no row of a project and are not modelled.           *)
(***************************************************************************)
MainCapacities == {Num(0), Rat(1, 1000)}
MainLives == {0, 1, 2}

\* generate_mock_projects (lines 145-195): the fields main passes on
ProjectSource == [capacity_mw : MainCapacities, project_life_years : MainLives]

\* generate_financial_assumptions (lines 198-249), as a set of records
MainAssumptionSource ==
    {a \in AssumptionSource :
        /\ a.capex_per_mw = Num(12000)
        /\ a.debt_ratio = Rat(1, 2)
        /\ a.interest_rate = Rat(1, 10)
        /\ a.loan_tenor_years \in {0, 1}
        /\ a.depreciation_years \in {0, 1}}

MainInit ==
    /\ pc = "insert_project"
    /\ error = NoError
    /\ calls = 0
    /\ project_id = 0
    /\ capacity = Zero
    /\ assumptions = NoResult
    /\ project_life = 0
    /\ InitLocals
    /\ metrics = NoResult
    /\ first_cash_flows = NoResult
    /\ first_metrics = NoResult
    /\ todo = <<>>
    /\ db = EmptyDb
    /\ committed = EmptyDb

\* insert_data with the table emptied before the rows are written
InsertData_Replace(table, data) ==
    IF data = <<>>
    THEN UNCHANGED store
    ELSE /\ db' = [db EXCEPT ![table] = data]
         /\ committed' = db'

\* insert_data (lines 458-470): nothing for an empty list, else one INSERT
\* per row and a commit
InsertData(table, data) ==
    IF data = <<>>
    THEN UNCHANGED store
    ELSE /\ db' = [db EXCEPT ![table] = @ \o data]
         /\ committed' = db'

\* lines 490-499: the next project's row is inserted (no commit) and
\* cursor.lastrowid is its id
InsertProject ==
    /\ pc = "insert_project"
    /\ \E p \in ProjectSource :
          /\ project_id' = Len(db.projects) + 1
          /\ capacity' = p.capacity_mw
          /\ project_life' = p.project_life_years
          /\ db' = [db EXCEPT !.projects =
                       Append(@, [id |-> project_id',
                                  capacity_mw |-> p.capacity_mw,
                                  project_life_years |-> p.project_life_years])]
    /\ pc' = "generate_assumptions"
    /\ UNCHANGED <<error, calls, assumptions, locals, metrics, firsts, committed>>

\* lines 502-503
GenerateAssumptions ==
    /\ pc = "generate_assumptions"
    /\ \E a \in MainAssumptionSource :
          /\ assumptions' = a
          /\ InsertData("financial_assumptions",
                        <<[project_id |-> project_id, assumptions |-> a]>>)
    /\ pc' = "call_cash_flows"
    /\ UNCHANGED <<error, calls, project_id, capacity, project_life, locals,
                   metrics, firsts>>

\* line 507
InsertCashFlows ==
    /\ pc = "insert_cash_flows"
    /\ InsertData("annual_cash_flows", cash_flows)
    /\ pc' = "call_metrics"
    /\ UNCHANGED <<error, calls, args, locals, metrics, firsts>>

\* line 511
InsertMetrics ==
    /\ pc = "insert_metrics"
    /\ InsertData("key_metrics", <<metrics>>)
    /\ pc' = "monthly_generation"
    /\ UNCHANGED <<error, calls, args, locals, metrics, firsts>>

\* generate_monthly_generation (lines 366-397): the keys of the rows; their
\* values are random.  Line 384 divides by capacity * monthly_hours.
MonthlyRows(pid) ==
    [k \in 1..(MonthlyYears * 12) |->
        [project_id |-> pid,
         year |-> 2020 + ((k - 1) \div 12) + 1,
         month |-> ((k - 1) % 12) + 1]]

\* lines 514-515, and the loop's next pass or its end
MonthlyGeneration ==
    /\ pc = "monthly_generation"
    /\ IF IsZero(capacity)
       THEN /\ Raise("ZeroDivisionError", 384)
            /\ UNCHANGED store
       ELSE /\ InsertData("monthly_generation", MonthlyRows(project_id))
            /\ pc' = IF Len(db.projects) < NumProjects
                     THEN "insert_project" ELSE "commit"
            /\ UNCHANGED error
    /\ UNCHANGED <<calls, args, locals, metrics, firsts>>

\* line 517
MainCommit ==
    /\ pc = "commit"
    /\ committed' = db
    /\ pc' = "done"
    /\ UNCHANGED <<error, calls, args, locals, metrics, firsts, db>>

MainNext ==
    \/ InsertProject
    \/ GenerateAssumptions
    \/ CashFlowsEntry
    \/ CashFlowsYear
    \/ CashFlowsReturn("insert_cash_flows")
    \/ InsertCashFlows
    \/ Metrics("insert_metrics")
    \/ InsertMetrics
    \/ MonthlyGeneration
    \/ MainCommit

MainSpec == MainInit /\ [][MainNext]_vars

(***************************************************************************)
(* The engine on the reference scenario of the specification: a 100 MW    *)
(* solar plant of 25 years.  What the scenario leaves unstated is taken   *)
(* from the ranges generate_financial_assumptions draws Solar PV from:    *)
(* the ends of the ranges of opex_per_mw_year and price_escalation_rate,  *)
(* and a discount rate of the range.                                       *)
(***************************************************************************)
ScenarioOpexPerMwYear == {Num(8000), Num(12000)}
ScenarioPriceEscalationRates == {Rat(15, 1000), Rat(25, 1000)}
ScenarioDiscountRates == {Rat(8, 100)}

ScenarioAssumptions ==
    [capex_per_mw : {Num(800000)},
     opex_per_mw_year : ScenarioOpexPerMwYear,
     capacity_factor : {Rat(25, 100)},
     degradation_rate : {Rat(5, 1000)},
     electricity_price_mwh : {Num(50)},
     price_escalation_rate : ScenarioPriceEscalationRates,
     discount_rate : ScenarioDiscountRates,
     debt_ratio : {Rat(7, 10)},
     interest_rate : {Rat(5, 100)},
     loan_tenor_years : {15},
     tax_rate : {Rat(25, 100)},
     depreciation_years : {20}]

ScenarioInit ==
    /\ pc = "call_cash_flows"
    /\ error = NoError
    /\ calls = 0
    /\ project_id = 1
    /\ capacity = Num(100)
    /\ assumptions \in ScenarioAssumptions
    /\ project_life = 25
    /\ todo = <<>>
    /\ InitLocals
    /\ metrics = NoResult
    /\ first_cash_flows = NoResult
    /\ first_metrics = NoResult
    /\ db = EmptyDb
    /\ committed = EmptyDb

ScenarioNext ==
    \/ CashFlowsEntry
    \/ CashFlowsYear
    \/ CashFlowsReturn("call_metrics")
    \/ Metrics("metrics_returned")

ScenarioSpec == ScenarioInit /\ [][ScenarioNext]_vars


(***************************************************************************)
(* calculate_metrics on its own: a caller that passes it any list of       *)
(* records, not only the lists calculate_cash_flows returns.  The function *)
(* reads year, ebitda, opex, interest_expense, principal_repayment,        *)
(* free_cash_flow and cumulative_cash_flow of each record (lines 318, 326, *)
(* 335, 341, 343).                                                         *)
(***************************************************************************)
MaxRecords == 3
RecordEbitdas == {Num(7), Num(9)}
RecordInterests == {Zero, Num(1)}
RecordPrincipals == {Zero, Num(2)}

\* a record of year y with the given ebitda, interest and principal, no
\* depreciation and no tax
AnyRecord(y, e, i, p) ==
    [project_id |-> 1,
     year |-> y,
     revenue |-> Add(e, One),
     opex |-> One,
     ebitda |-> e,
     depreciation |-> Zero,
     interest_expense |-> i,
     principal_repayment |-> p,
     tax |-> Zero,
     net_income |-> Sub(e, i),
     free_cash_flow |-> Sub(Sub(e, i), p),
     cumulative_cash_flow |-> Sub(Sub(e, i), p)]

\* the lists of n such records, of the years 1..n
RecordLists(n) ==
    {[y \in 1..n |-> AnyRecord(y, c[y][1], c[y][2], c[y][3])] :
        c \in [1..n -> RecordEbitdas \X RecordInterests \X RecordPrincipals]}

MetricsInit ==
    /\ pc = "call_metrics"
    /\ error = NoError
    /\ calls = 0
    /\ project_id = 1
    /\ capacity = OtherProject.capacity
    /\ assumptions = OtherProject.assumptions
    /\ project_life = MaxRecords
    /\ todo = <<>>
    /\ capex = Zero
    /\ annual_generation_base = Zero
    /\ cumulative = Zero
    /\ debt_balance = Zero
    /\ annual_depreciation = Zero
    /\ year = 0
    /\ \E n \in 0..MaxRecords : cash_flows \in RecordLists(n)
    /\ trace = <<>>
    /\ metrics = NoResult
    /\ first_cash_flows = NoResult
    /\ first_metrics = NoResult
    /\ db = EmptyDb
    /\ committed = EmptyDb

MetricsNext == Metrics("metrics_returned")

MetricsSpec == MetricsInit /\ [][MetricsNext]_vars

(***************************************************************************)
(* The claims.                                                             *)
(***************************************************************************)

\* The points of control at which calculate_cash_flows has returned its list
\* and cash_flows is that list.
CashFlowsReturned ==
    \/ pc \in {"call_metrics", "metrics_returned", "insert_cash_flows",
               "insert_metrics"}
    \/ pc = "raised" /\ error[2] \in {318, 336}

\* calculate_cash_flows has been entered on the current arguments: its
\* locals, trace and cash_flows are those of that call.
Entered == pc \notin {"call_cash_flows", "insert_project", "generate_assumptions"}

\* -capex * (1 - debt_ratio), written out from the arguments
EquityOutlay ==
    Mul(Neg(Mul(assumptions.capex_per_mw, capacity)),
        Sub(One, assumptions.debt_ratio))

\* C1 as stated: in the returned records, the cumulative_cash_flow of year n
\* is exactly -capex*(1-debt_ratio) plus the sum of the free_cash_flow fields
\* of the records of years 1..n.
C1_CumulativeIsSumOfRecords ==
    Entered =>
        \A n \in 1..Len(cash_flows) :
            cash_flows[n].cumulative_cash_flow =
                Add(EquityOutlay,
                    SumSeq([i \in 1..n |-> cash_flows[i].free_cash_flow]))

\* C1 amended: the cumulative_cash_flow of the year-n record is
\* -capex*(1-debt_ratio) plus the sum of the unrounded free cash flows of
\* years 1..n, rounded to a whole unit.
C1_CumulativeIsRoundedRunningSum ==
    Entered =>
        \A n \in 1..Len(cash_flows) :
            cash_flows[n].cumulative_cash_flow =
                Round(Add(EquityOutlay, SumSeq([i \in 1..n |-> trace[i].fcf])))

\* C1's case: a returned list of two years or more in which the records'
\* own free cash flows do not add up to a record's cumulative cash flow.
C1_Witness ==
    /\ pc = "call_metrics"
    /\ Len(cash_flows) >= 2
    /\ ~C1_CumulativeIsSumOfRecords

\* The valid assumption sets of C2: a positive capacity, a non-negative
\* capex, a debt ratio in [0, 1], a loan tenor of a year or more.
C2_Valid ==
    /\ capacity[1] > 0
    /\ assumptions.capex_per_mw[1] >= 0
    /\ Leq(Zero, assumptions.debt_ratio)
    /\ Leq(assumptions.debt_ratio, One)
    /\ assumptions.loan_tenor_years >= 1

\* C2: for valid assumptions the debt balance never increases from a year to
\* the next, and it is exactly 0 once the year loan_tenor_years has been
\* processed.
C2_DebtBalanceDeclinesToZero ==
    (Entered /\ C2_Valid) =>
        /\ \A i \in 1..Len(trace) :
              /\ Leq(trace[i].debt_balance, trace[i].opening_balance)
              /\ i > 1 => trace[i].opening_balance = trace[i - 1].debt_balance
              /\ i >= assumptions.loan_tenor_years => trace[i].debt_balance = Zero
        /\ Len(trace) >= assumptions.loan_tenor_years => debt_balance = Zero

\* C2's case: a loan of several years, drawn, and its last year processed.
C2_Witness ==
    /\ Entered
    /\ C2_Valid
    /\ assumptions.loan_tenor_years >= 2
    /\ Len(trace) >= assumptions.loan_tenor_years
    /\ trace[1].opening_balance[1] > 0
    /\ Lt(trace[2].debt_balance, trace[1].debt_balance)

\* The years whose record has a cumulative cash flow >= 0.
C3_BreakEvenYears ==
    {y \in 1..project_life :
        \E i \in 1..Len(cash_flows) :
            /\ cash_flows[i].year = y
            /\ Leq(Zero, cash_flows[i].cumulative_cash_flow)}

\* C3: the payback calculate_metrics reports is the smallest year whose
\* cumulative cash flow is >= 0, and project_life when there is no such year.
C3_PaybackIsFirstBreakEven ==
    pc = "metrics_returned" =>
        IF C3_BreakEvenYears = {}
        THEN metrics.payback_period_years = project_life
        ELSE /\ metrics.payback_period_years \in C3_BreakEvenYears
             /\ \A y \in C3_BreakEvenYears : metrics.payback_period_years <= y

\* C3's cases: a break-even after the first year and before the last, ...
C3_Witness ==
    /\ pc = "metrics_returned"
    /\ metrics.payback_period_years = 2
    /\ project_life >= 3
    /\ 3 \in C3_BreakEvenYears

\* ... and no break-even at all.
C3_WitnessNoBreakEven ==
    /\ pc = "metrics_returned"
    /\ project_life >= 2
    /\ C3_BreakEvenYears = {}

\* C4 as stated: with loan_tenor_years = 0 neither function raises, every
\* record has interest_expense = 0 and principal_repayment = 0, and the
\* metrics report dscr_min = 0 and dscr_avg = 0.
C4_ZeroTenorNeverRaises ==
    (Entered /\ assumptions.loan_tenor_years = 0) =>
        /\ pc # "raised"
        /\ \A i \in 1..Len(cash_flows) :
              /\ cash_flows[i].interest_expense = Zero
              /\ cash_flows[i].principal_repayment = Zero
        /\ pc = "metrics_returned" =>
              /\ metrics.dscr_min = Zero
              /\ metrics.dscr_avg = Zero

\* What is left of C4 where lines 260 and 336 do not raise: the records of a
\* zero-tenor loan carry no debt service and the DSCR figures are 0.
C4_ZeroTenorNoDebtService ==
    (Entered /\ assumptions.loan_tenor_years = 0) =>
        /\ \A i \in 1..Len(cash_flows) :
              /\ cash_flows[i].interest_expense = Zero
              /\ cash_flows[i].principal_repayment = Zero
        /\ pc = "metrics_returned" =>
              /\ metrics.dscr_min = Zero
              /\ metrics.dscr_avg = Zero

\* C5 as stated: with depreciation_years = 0, calculate_cash_flows does not
\* divide by zero, and every record has depreciation = 0.
C5_ZeroDepreciationYearsGuarded ==
    (Entered /\ assumptions.depreciation_years = 0) =>
        /\ ~(pc = "raised" /\ error = <<"ZeroDivisionError", 260>>)
        /\ \A i \in 1..Len(cash_flows) : cash_flows[i].depreciation = Zero

\* C6 as stated: with a total generation of zero (capacity_factor = 0 or
\* project_life = 0), calculate_metrics does not divide by zero.
C6_ZeroGenerationGuarded ==
    (Entered /\ (IsZero(assumptions.capacity_factor) \/ project_life = 0)) =>
        ~(pc = "raised" /\ error = <<"ZeroDivisionError", 336>>)

\* The invalid assumption sets of C7: capacity <= 0, a negative rate, or
\* depreciation_years <= 0.
C7_Invalid ==
    \/ capacity[1] <= 0
    \/ \E r \in {assumptions.capacity_factor, assumptions.degradation_rate,
                 assumptions.price_escalation_rate, assumptions.discount_rate,
                 assumptions.debt_ratio, assumptions.interest_rate,
                 assumptions.tax_rate} : r[1] < 0
    \/ assumptions.depreciation_years <= 0

\* C7 as stated: for an invalid assumption set no yearly record is computed
\* and calculate_cash_flows never returns a sequence.
C7_InvalidAssumptionsRejected ==
    (Entered /\ C7_Invalid) => (cash_flows = <<>> /\ ~CashFlowsReturned)

\* The project a row of a table belongs to.
RowProject(t, row) == IF t = "projects" THEN row.id ELSE row.project_id

C9_MetricsDeterministic ==
    (calls >= 2 /\ project_id = 1 /\ pc = "metrics_returned") =>
        metrics = first_metrics

\* A step of calculate_cash_flows leaves its arguments as they were.
C10_ArgumentsKept ==
    pc \in {"call_cash_flows", "cash_flows_loop"} =>
        (assumptions' = assumptions /\ capacity' = capacity)

\* C10: no step of calculate_cash_flows changes the assumptions (nor the
\* other arguments) it was given, and a later call on the arguments of
\* project 1 returns the same sequence as the first call, be it made right
\* after it or after the call for another project.
C10_CashFlowsPure ==
    /\ []((calls >= 2 /\ project_id = 1 /\ CashFlowsReturned) =>
            cash_flows = first_cash_flows)
    /\ [][C10_ArgumentsKept]_vars

\* C10's case: project 1 is computed again after project 2, and the call
\* has returned a sequence of several years that carries debt service.
C10_Witness ==
    /\ calls = 3
    /\ project_id = 1
    /\ pc = "call_metrics"
    /\ Len(cash_flows) >= 2
    /\ cash_flows = first_cash_flows
    /\ cash_flows[1].principal_repayment[1] > 0

\* calculate_metrics has returned its record for the current arguments.
MetricsReturned == pc \in {"metrics_returned", "insert_metrics"}

\* |x - y| <= tol
Within(x, y, tol) == Leq(Sub(x, y), tol) /\ Leq(Sub(y, x), tol)

\* The total lifetime generation, written out from the arguments.
LifetimeGeneration ==
    SumSeq([y \in 1..project_life |->
               Mul(Mul(Mul(capacity, assumptions.capacity_factor), Num(8760)),
                   Pow(Sub(One, assumptions.degradation_rate), y - 1))])

\* C11: where the total generation is not zero, the reported lcoe times the
\* total lifetime generation equals capex plus the sum of the yearly opex,
\* within the rounding of the reported values: half a cent of lcoe per MWh
\* generated, and half a unit for each yearly opex record.
C11_LcoeRoundTrip ==
    (MetricsReturned /\ ~IsZero(LifetimeGeneration)) =>
        Within(Mul(metrics.lcoe, LifetimeGeneration),
               Add(Mul(assumptions.capex_per_mw, capacity),
                   SumSeq([i \in 1..Len(trace) |-> trace[i].opex])),
               Add(Mul(Rat(1, 200), LifetimeGeneration),
                   Mul(Rat(1, 2), Num(project_life))))

\* C11's case: a metrics record of a project of several years with a cost
\* of capital, whose lcoe was changed by its rounding.
C11_Witness ==
    /\ MetricsReturned
    /\ project_life >= 2
    /\ capacity[1] > 0
    /\ ~IsZero(LifetimeGeneration)
    /\ Mul(metrics.lcoe, LifetimeGeneration) #
          Add(Mul(assumptions.capex_per_mw, capacity),
              SumSeq([i \in 1..Len(trace) |-> trace[i].opex]))

\* C12: calculate_cash_flows returns exactly project_life records, and the
\* year of the i-th record is i (none when project_life = 0).
C12_OneRecordPerYear ==
    CashFlowsReturned =>
        /\ Len(cash_flows) = project_life
        /\ \A i \in 1..Len(cash_flows) : cash_flows[i].year = i

\* C12's cases: a returned list of several years, ...
C12_Witness ==
    /\ pc = "call_metrics"
    /\ project_life >= 3
    /\ Len(cash_flows) = project_life
    /\ cash_flows[3].year = 3

\* ... and the empty list of a project of no year.
C12_WitnessEmpty ==
    /\ pc = "call_metrics"
    /\ project_life = 0
    /\ cash_flows = <<>>

\* C13: in year y the depreciation is capex / depreciation_years when
\* y <= depreciation_years and 0 when y > depreciation_years, and the record
\* carries that amount rounded; so it is non-zero in no later year.
C13_DepreciationWithinHorizon ==
    (Entered /\ assumptions.depreciation_years > 0) =>
        \A y \in 1..Len(trace) :
            LET expected ==
                    IF y <= assumptions.depreciation_years
                    THEN Div(Mul(assumptions.capex_per_mw, capacity),
                             Num(assumptions.depreciation_years))
                    ELSE Zero
            IN  /\ trace[y].depreciation = expected
                /\ cash_flows[y].depreciation = Round(expected)
                /\ y > assumptions.depreciation_years =>
                       cash_flows[y].depreciation = Zero

\* C13's case: a projection that runs past the depreciation horizon of a
\* plant that cost something.
C13_Witness ==
    /\ Entered
    /\ assumptions.depreciation_years = 2
    /\ Len(trace) >= 3
    /\ trace[2].depreciation[1] > 0
    /\ trace[3].depreciation = Zero

\* C14: in every year ebt = ebitda - depreciation - interest; the tax is
\* ebt * tax_rate when ebt > 0 and 0 when ebt <= 0, so never negative; and
\* net_income = ebt - tax.
C14_TaxFloorAtZero ==
    (Entered /\ Leq(Zero, assumptions.tax_rate)
             /\ Leq(assumptions.tax_rate, One)) =>
        \A y \in 1..Len(trace) :
            LET b == trace[y]
            IN  /\ b.ebt = Sub(Sub(b.ebitda, b.depreciation), b.interest)
                /\ b.tax = IF b.ebt[1] > 0
                           THEN Mul(b.ebt, assumptions.tax_rate)
                           ELSE Zero
                /\ b.tax[1] >= 0
                /\ b.net_income = Sub(b.ebt, b.tax)

\* C14's case: a loss year followed by a year with taxable earnings.
C14_Witness ==
    /\ Entered
    /\ Len(trace) >= 2
    /\ trace[1].ebt[1] < 0
    /\ trace[1].tax = Zero
    /\ trace[2].ebt[1] > 0
    /\ trace[2].tax[1] > 0

\* The debt service of the i-th returned record, the years that have one,
\* and the debt service coverage ratio of such a year.
C15_DebtServiceOf(i) ==
    Add(cash_flows[i].interest_expense, cash_flows[i].principal_repayment)

C15_ServedYears == {i \in 1..Len(cash_flows) : C15_DebtServiceOf(i)[1] > 0}

C15_Dscr(i) == Div(cash_flows[i].ebitda, C15_DebtServiceOf(i))

\* C15: the reported dscr_min and dscr_avg are the minimum and the mean,
\* to 2 decimals, of ebitda / (interest + principal) over exactly the years
\* of the returned sequence whose debt service is > 0; a year whose debt
\* service is zero enters neither.
C15_DscrOverServedYears ==
    (MetricsReturned /\ C15_ServedYears # {}) =>
        /\ \E i \in C15_ServedYears :
              /\ \A j \in C15_ServedYears : Leq(C15_Dscr(i), C15_Dscr(j))
              /\ metrics.dscr_min = RoundTo(C15_Dscr(i), 2)
        /\ metrics.dscr_avg =
              RoundTo(Div(SumSeq([i \in 1..Len(cash_flows) |->
                                     IF i \in C15_ServedYears
                                     THEN C15_Dscr(i) ELSE Zero]),
                          Num(Cardinality(C15_ServedYears))), 2)

\* C15's case: several years with debt service, of different coverage, and
\* a year without.
C15_Witness ==
    /\ MetricsReturned
    /\ Cardinality(C15_ServedYears) >= 2
    /\ C15_ServedYears # 1..Len(cash_flows)
    /\ metrics.dscr_min # metrics.dscr_avg
    /\ metrics.dscr_min[1] > 0

\* (1 + discount_rate)^y, written out from the arguments
C16_Discount(y) == Pow(Add(One, assumptions.discount_rate), y)

\* The net present value of the free cash flows the loop computed (line
\* 289, the amounts that line 290 adds to the cumulative cash flow).
C16_NpvOfCashFlows ==
    Add(EquityOutlay,
        SumSeq([y \in 1..Len(trace) |-> Div(trace[y].fcf, C16_Discount(y))]))

\* C16 as stated: the reported npv is -capex*(1-debt_ratio) plus the sum of
\* fcf_y / (1+discount_rate)^y over the projected years, fcf_y being the
\* free cash flow that feeds the cumulative cash flow; the reported figure
\* is taken to the whole unit.
C16_NpvOfFreeCashFlows ==
    MetricsReturned => metrics.npv = Round(C16_NpvOfCashFlows)

\* C16 amended: the reported npv is -capex*(1-debt_ratio) plus the sum of
\* free_cash_flow_y / (1+discount_rate)^y over the returned records, whose
\* free_cash_flow is fcf_y rounded to a whole unit, the sum being rounded to
\* a whole unit in turn.
C16_NpvOfRecords ==
    MetricsReturned =>
        metrics.npv =
            Round(Add(EquityOutlay,
                      SumSeq([y \in 1..Len(cash_flows) |->
                                 Div(Round(trace[y].fcf), C16_Discount(y))])))

\* C16's case: a projection of several years whose reported npv is not the
\* rounded net present value of the unrounded free cash flows.
C16_Witness ==
    /\ MetricsReturned
    /\ Len(cash_flows) >= 2
    /\ metrics.npv # Round(C16_NpvOfCashFlows)

\* C17: once a year y is past the loan tenor, or opens with a debt balance
\* of zero, interest and principal are 0 in that year and in every later
\* year, in the loop and in the records.
C17_DebtServiceNeverResumes ==
    Entered =>
        \A y \in 1..Len(trace) :
            (y > assumptions.loan_tenor_years \/ IsZero(trace[y].opening_balance))
                => \A z \in y..Len(trace) :
                      /\ trace[z].interest = Zero
                      /\ trace[z].principal = Zero
                      /\ cash_flows[z].interest_expense = Zero
                      /\ cash_flows[z].principal_repayment = Zero

\* C17's cases: a loan serviced to its last year, with years after it, ...
C17_Witness ==
    /\ Entered
    /\ assumptions.loan_tenor_years = 2
    /\ Len(trace) >= 3
    /\ trace[2].principal[1] > 0
    /\ trace[2].interest[1] > 0
    /\ trace[3].principal = Zero

\* ... and a debt that is never serviced, its tenor being 0.
C17_WitnessZeroTenor ==
    /\ Entered
    /\ assumptions.loan_tenor_years = 0
    /\ Len(trace) >= 2
    /\ trace[2].opening_balance[1] > 0
    /\ assumptions.interest_rate[1] > 0

\* A step keeps every row written so far, in the connection and in the
\* database file: each table is its old self, with rows added at its end
\* or none.
C20_RowsKept ==
    \A t \in Tables :
        /\ Len(db'[t]) >= Len(db[t])
        /\ SubSeq(db'[t], 1, Len(db[t])) = db[t]
        /\ Len(committed'[t]) >= Len(committed[t])
        /\ SubSeq(committed'[t], 1, Len(committed[t])) = committed[t]

\* C20: during a run of main the rows of a project (its project row, its
\* assumptions, cash flows, metrics and monthly generation) are only ever
\* inserted: no step updates or deletes a row written before it.
C20_WriteOnce == [][C20_RowsKept]_vars

\* C20's case: the run has written the complete record set of one project
\* and, after it, that of the next, and has ended.
C20_Witness ==
    /\ pc = "done"
    /\ Len(committed.projects) >= 2
    /\ \A t \in Tables :
          \A p \in 1..2 :
              \E i \in 1..Len(committed[t]) : RowProject(t, committed[t][i]) = p

(***************************************************************************)
(* C18: on the reference scenario (100 MW, 800000 per MW, capacity factor  *)
(* 0.25, price 50, degradation 0.005, debt ratio 0.7, interest 0.05, tenor *)
(* 15, tax 0.25, depreciation over 20 years, a life of 25 years) the       *)
(* cumulative position the loop starts from is -24,000,000, the generation *)
(* of year 1 is 219,000 MWh, its revenue 10,950,000, and the debt balance  *)
(* is 0 after year 15.  Checked under ScenarioSpec.                        *)
(***************************************************************************)
C18_ScenarioFigures ==
    /\ (pc = "cash_flows_loop" /\ trace = <<>>) => cumulative = Num(-24000000)
    /\ trace # <<>> =>
          /\ trace[1].annual_generation = Num(219000)
          /\ trace[1].revenue = Num(10950000)
          /\ cash_flows[1].revenue = Num(10950000)
    /\ \A i \in 1..Len(trace) : i >= 15 => trace[i].debt_balance = Zero
    /\ Len(trace) >= 15 => debt_balance = Zero

\* the loan is still open after year 14 and closed by the payment of year 15
C18_Witness ==
    /\ pc = "call_metrics"
    /\ Len(trace) = 25
    /\ trace[1].cumulative[1] < 0
    /\ trace[14].debt_balance[1] > 0
    /\ trace[15].principal[1] > 0
    /\ trace[15].debt_balance = Zero

(***************************************************************************)
(* C19: on the same scenario, with opex_per_mw_year in 8000..12000 and     *)
(* price_escalation_rate in 0.015..0.025 (the generator's Solar PV         *)
(* ranges), the payback year calculate_metrics reports is strictly greater *)
(* than 8 and strictly less than 14.  Checked under ScenarioSpec, at the   *)
(* ends of the two ranges.                                                 *)
(***************************************************************************)
C19_PaybackBetween8And14 ==
    MetricsReturned =>
        /\ metrics.payback_period_years > 8
        /\ metrics.payback_period_years < 14

\* C19 as amended: the payback year reported is 7 or 8, the first year whose
\* rounded cumulative cash flow is not negative.
C19_PaybackIs7Or8 ==
    MetricsReturned =>
        /\ metrics.payback_period_years \in {7, 8}
        /\ BreaksEven(cash_flows[metrics.payback_period_years])
        /\ \A i \in 1..(metrics.payback_period_years - 1) :
               ~BreaksEven(cash_flows[i])

\* the low opex with the high escalation break even in year 7
C19_Witness ==
    /\ MetricsReturned
    /\ assumptions.opex_per_mw_year = Num(8000)
    /\ assumptions.price_escalation_rate = Rat(25, 1000)
    /\ metrics.payback_period_years = 7

\* the high opex with the low escalation break even in year 8
C19_WitnessYear8 ==
    /\ MetricsReturned
    /\ assumptions.opex_per_mw_year = Num(12000)
    /\ assumptions.price_escalation_rate = Rat(15, 1000)
    /\ metrics.payback_period_years = 8

(***************************************************************************)
(* C21: the average DSCR of a schedule with uniform debt service.          *)
(***************************************************************************)
\* The years of the list passed to calculate_metrics that have a debt
\* service, and the coverage ratio of such a year (lines 341-343).
C21_ServedYears == {i \in 1..Len(cash_flows) : DebtService(cash_flows[i])[1] > 0}

C21_Dscr(i) == Div(cash_flows[i].ebitda, DebtService(cash_flows[i]))

\* every year with a debt service has the same debt service
C21_UniformDebtService ==
    \A i, j \in C21_ServedYears :
        DebtService(cash_flows[i]) = DebtService(cash_flows[j])

\* every year with a debt service has the same ebitda
C21_UniformEbitda ==
    \A i, j \in C21_ServedYears : cash_flows[i].ebitda = cash_flows[j].ebitda

\* x and y agree to the 2 decimals a ratio is reported with: |x - y| < 0.01
C21_Agree(x, y) == Lt(Sub(x, y), Rat(1, 100)) /\ Lt(Sub(y, x), Rat(1, 100))

\* C21 as stated: whenever every year with a positive debt service has the
\* same debt service, the dscr_avg that calculate_metrics returns is the
\* DSCR ebitda_y / debt_service_y of any single one of those years (read
\* to the 2 decimals dscr_avg is reported with).
C21_AvgIsDscrOfAnyYear ==
    (MetricsReturned /\ C21_UniformDebtService) =>
        \A i \in C21_ServedYears : C21_Agree(metrics.dscr_avg, C21_Dscr(i))

\* C21 as amended: whenever every year with a positive debt service has the
\* same debt service and the same ebitda, the dscr_avg returned agrees, to
\* the 2 decimals it is reported with, with the DSCR of any single one of
\* those years.
C21_AvgIsTheUniformDscr ==
    (MetricsReturned /\ C21_UniformDebtService /\ C21_UniformEbitda) =>
        \A i \in C21_ServedYears : C21_Agree(metrics.dscr_avg, C21_Dscr(i))

\* C21's case: two years served alike, with a ratio that is not a whole
\* number, and a year without debt service.
C21_Witness ==
    /\ MetricsReturned
    /\ C21_UniformDebtService
    /\ C21_UniformEbitda
    /\ Cardinality(C21_ServedYears) = 2
    /\ Len(cash_flows) = 3
    /\ metrics.dscr_avg = Rat(233, 100)

(***************************************************************************)
(* C22: equal-principal amortization.                                      *)
(***************************************************************************)
\* The initial debt D = capex * debt_ratio and the tenor T, written out from
\* the arguments.
C22_Debt ==
    Mul(Mul(assumptions.capex_per_mw, capacity), assumptions.debt_ratio)

C22_Tenor == assumptions.loan_tenor_years

\* D * (T - y) / T
C22_BalanceAfter(y) ==
    Div(Mul(C22_Debt, Num(C22_Tenor - y)), Num(C22_Tenor))

\* C22: for a tenor T >= 1 and an initial debt D > 0, the principal of every
\* computed year y <= T is D / T and the balance after it D * (T - y) / T;
\* once all the years of the projection are computed, the principal repaid
\* sums to D if project_life >= T, and the balance D * (T - project_life) / T
\* is left if project_life < T.
C22_EqualPrincipal ==
    (Entered /\ C22_Tenor >= 1 /\ C22_Debt[1] > 0) =>
        /\ \A y \in 1..Len(trace) :
              y <= C22_Tenor =>
                  /\ trace[y].principal = Div(C22_Debt, Num(C22_Tenor))
                  /\ trace[y].debt_balance = C22_BalanceAfter(y)
        /\ (Len(trace) = project_life /\ project_life >= C22_Tenor) =>
              SumSeq([y \in 1..Len(trace) |-> trace[y].principal]) = C22_Debt
        /\ (Len(trace) = project_life /\ project_life < C22_Tenor) =>
              debt_balance = C22_BalanceAfter(project_life)

\* C22's case: a loan of 3 years repaid in full within the projection, in
\* three equal amounts.
C22_Witness ==
    /\ Entered
    /\ C22_Tenor = 3
    /\ C22_Debt[1] > 0
    /\ Len(trace) = 3
    /\ trace[1].principal[1] > 0
    /\ trace[3].principal = trace[1].principal
    /\ trace[3].debt_balance = Zero

\* C22's other case: a loan that outlives the projection leaves a balance.
C22_WitnessUnpaid ==
    /\ Entered
    /\ C22_Debt[1] > 0
    /\ project_life >= 1
    /\ project_life < C22_Tenor
    /\ Len(trace) = project_life
    /\ debt_balance[1] > 0
    /\ debt_balance = C22_BalanceAfter(project_life)

(***************************************************************************)
(* C23: free cash flow from net income.                                    *)
(***************************************************************************)
\* C23: in every computed year, before rounding, the free cash flow is the
\* net income plus the depreciation minus the principal repaid.
C23_FcfFromNetIncome ==
    Entered =>
        \A y \in 1..Len(trace) :
            trace[y].fcf =
                Sub(Add(trace[y].net_income, trace[y].depreciation),
                    trace[y].principal)

\* C23's case: a year with depreciation, a principal repayment and tax.
C23_Witness ==
    /\ Entered
    /\ \E y \in 1..Len(trace) :
          /\ trace[y].depreciation[1] > 0
          /\ trace[y].principal[1] > 0
          /\ trace[y].tax[1] > 0
          /\ trace[y].fcf # trace[y].net_income

====
